---- MODULE Spec2Model ----
(***************************************************************************)
(* Model of src/app.py, the Streamlit English <-> French translator.       *)
(*                                                                         *)
(* The script is re-executed from top to bottom for every event of a       *)
(* browser session.  State that outlives one execution is                  *)
(* st.session_state (messages, active_tab) and the values held by the      *)
(* input widgets: st.file_uploader keeps returning the uploaded file and   *)
(* mic_recorder (just_once defaults to False) keeps returning the last     *)
(* recording on every later execution, while st.chat_input returns the     *)
(* submitted text only in the execution that the submit triggered.         *)
(*                                                                         *)
(* One execution is cut at its blocking calls to the OpenAI client: an     *)
(* event action runs the script up to the first outbound call (or to the   *)
(* end), and one action per kind of call takes the answer and runs the     *)
(* script up to the next call (or to the end).  Events are accepted only   *)
(* while no execution of the session is under way.                         *)
(***************************************************************************)
EXTENDS Integers, Sequences, FiniteSets, TLC

VARIABLES
    apiKey,       \* st.secrets holds "OPENAI_API_KEY" (one value for the app)
    live,         \* the browser sessions that are open
    keys,         \* per session: the keys present in st.session_state
    messages,     \* per session: st.session_state.messages
    active_tab,   \* per session: st.session_state.active_tab
    tab_labels,   \* per session: the order the tabs were drawn in (line 101)
    widgets,      \* per session: the last execution drew the input controls
    uploaded,     \* per session: value held by st.file_uploader
    recorded,     \* per session: bytes held by mic_recorder
    pc,           \* per session: tab and outbound call the execution waits in
    calls,        \* per session: outbound calls of the current execution
    shown,        \* per session: errors / audio players of the current execution
    event,        \* per session: the event that triggered the current execution
    before,       \* per session: messages when the current execution began
    recovering    \* per session: the execution before the current one reported a failure

vars == <<apiKey, live, keys, messages, active_tab, tab_labels, widgets,
          uploaded, recorded, pc, calls, shown, event, before, recovering>>

\* ---------------------------------------------------------------- bounds
\* No new event is accepted once a Conversation holds MaxHistory entries.
MaxHistory == 3

\* The same bound where two sessions run side by side.
MaxShared == 1

Sessions == {1, 2}

\* Python's None, and truthiness of an optional string (None and "" are falsy).
None == "<None>"
Truthy(x) == x # None /\ x # ""

\* Input domains.
Prompts == {"Hello", "Test"}               \* st.chat_input never returns ""
Files == {"upload.wav"}              \* uploaded audio
Recordings == {"", "pcm"}            \* audio_info['bytes'], possibly empty
Transcripts == {"", "Good morning"}    \* transcription_response.text
Translations == {"", "Bonjour"}      \* response.choices[0].message.content
AudioBytes == {"mp3"}                \* response.read()

\* What an outbound call can do: raise, or return a value.
Raised == [ok |-> FALSE, value |-> ""]
Returned(v) == [ok |-> TRUE, value |-> v]
TranscriptionOutcomes == {Raised} \cup {Returned(t) : t \in Transcripts}
TranslationOutcomes == {Raised} \cup {Returned(r) : r \in Translations}
SpeechOutcomes == {Raised} \cup {Returned(b) : b \in AudioBytes}

\* ------------------------------------------------------------- constants
Chat == "Chat"
FileUploader == "File Uploader"
AudioRecorder == "Audio Recorder"
AllTabs == <<Chat, FileUploader, AudioRecorder>>

system_prompt == "You are a hyper-efficient translation engine."
TranscriptionTag == "[mic] *Transcription:* "

Idle == [tab |-> "none", call |-> "none"]
Waiting(tab, call) == [tab |-> tab, call |-> call]

UserEntry(c) == [role |-> "user", content |-> c]
AssistantEntry(c) == [role |-> "assistant", content |-> c]
TranscriptionEntry(t) == UserEntry(TranscriptionTag \o t)

\* ------------------------------------------------------- pure operations
\* The script going on whatever the secret (st.stop() left out).
CredentialIgnored(key) == TRUE

\* Lines 78-83: the script goes on only when the secret is present.
CredentialPresent(key) == key

\* messages reset by every execution (the membership test left out).
InitMessagesAlways(ks, msgs) == <<>>

\* Lines 85-87: messages is created empty only when the key is absent.
InitMessages(ks, msgs) == IF "messages" \in ks THEN msgs ELSE <<>>

\* Lines 95-96: active_tab is created as the chat tab only when absent.
InitActiveTab(ks, tab) == IF "active_tab" \in ks THEN tab ELSE Chat

\* Line 101: the active tab first, then the others in their fixed order.
TabLabels(active) == <<active>> \o SelectSeq(AllTabs, LAMBDA l : l # active)

\* Lines 27-35: the request translate_text builds.
translate_request(text_to_translate) ==
    << [role |-> "system", content |-> system_prompt],
       [role |-> "user", content |-> text_to_translate] >>

\* Lines 36-44: what translate_text returns for an outcome of the call.
translate_text(o) == IF o.ok THEN o.value ELSE None

\* Lines 48-58: what speak_text returns for an outcome of the call.
speak_text(o) == IF o.ok THEN o.value ELSE None

\* Line 156: audio_info and audio_info['bytes'].
HasRecording(audio_info) == audio_info # None /\ audio_info # ""

Call(kind, tab, input, request) ==
    [kind |-> kind, tab |-> tab, input |-> input, request |-> request,
     status |-> "pending", output |-> ""]

\* The answer of the call the execution waits in is the last of the log.
Answer(cs, o) ==
    [cs EXCEPT ![Len(cs)] =
        [@ EXCEPT !.status = IF o.ok THEN "ok" ELSE "error", !.output = o.value]]

\* ---------------------------------------------- one execution of the script
\* L is the part of a session's state an execution works on:
\* [messages, active_tab, calls, shown, pc].

\* Lines 154-160 and 162-166: the recorder tab up to its transcription call;
\* without a recording the script ends.
RecorderTab(L, audio_info) ==
    IF HasRecording(audio_info)
    THEN [L EXCEPT !.active_tab = AudioRecorder,
                   !.calls = Append(@, Call("transcribe", AudioRecorder, audio_info, <<>>)),
                   !.pc = Waiting(AudioRecorder, "transcribe")]
    ELSE [L EXCEPT !.pc = Idle]

\* Lines 125-135: the uploader tab up to its transcription call; without a
\* file the script goes on to the recorder tab.
FileTab(L, audio_file, audio_info) ==
    IF audio_file # None
    THEN [L EXCEPT !.active_tab = FileUploader,
                   !.calls = Append(@, Call("transcribe", FileUploader, audio_file, <<>>)),
                   !.pc = Waiting(FileUploader, "transcribe")]
    ELSE RecorderTab(L, audio_info)

\* The prompt handled only while the chat tab is the active one.
ChatTabWhenActive(L, prompt, audio_file, audio_info) ==
    IF prompt # None /\ L.active_tab = Chat
    THEN [L EXCEPT !.messages = Append(@, UserEntry(prompt)),
                   !.calls = Append(@, Call("translate", Chat, prompt,
                                            translate_request(prompt))),
                   !.pc = Waiting(Chat, "translate")]
    ELSE FileTab(L, audio_file, audio_info)

\* Lines 106-115: the chat tab up to its translation call; without a prompt
\* the script goes on to the uploader tab.
ChatTab(L, prompt, audio_file, audio_info) ==
    IF prompt # None
    THEN [L EXCEPT !.active_tab = Chat,
                   !.messages = Append(@, UserEntry(prompt)),
                   !.calls = Append(@, Call("translate", Chat, prompt,
                                            translate_request(prompt))),
                   !.pc = Waiting(Chat, "translate")]
    ELSE FileTab(L, audio_file, audio_info)

\* The script after the with-block of a tab: the next tab, or the end.
AfterTab(L, tab, audio_file, audio_info) ==
    CASE tab = Chat -> FileTab(L, audio_file, audio_info)
      [] tab = FileUploader -> RecorderTab(L, audio_info)
      [] OTHER -> [L EXCEPT !.pc = Idle]

\* The transcript translated with the whole Conversation as context.
OnTranscriptionWithHistory(L, tab, o) ==
    IF o.ok
    THEN [L EXCEPT !.messages = Append(@, TranscriptionEntry(o.value)),
                   !.calls = Append(@, Call("translate", tab, o.value,
                                 <<[role |-> "system", content |-> system_prompt]>>
                                 \o Append(L.messages, TranscriptionEntry(o.value)))),
                   !.pc = Waiting(tab, "translate")]
    ELSE [L EXCEPT !.shown = Append(@, "error_transcription"),
                   !.pc = Waiting(tab, "done")]

\* The transcript translated without its user entry being appended.
OnTranscriptionNoEntry(L, tab, o) ==
    IF o.ok
    THEN [L EXCEPT !.calls = Append(@, Call("translate", tab, o.value,
                                            translate_request(o.value))),
                   !.pc = Waiting(tab, "translate")]
    ELSE [L EXCEPT !.shown = Append(@, "error_transcription"),
                   !.pc = Waiting(tab, "done")]

\* Lines 136-142 / 167-173 and the except at 150-151 / 181-182.
OnTranscription(L, tab, o) ==
    IF o.ok
    THEN [L EXCEPT !.messages = Append(@, TranscriptionEntry(o.value)),
                   !.calls = Append(@, Call("translate", tab, o.value,
                                            translate_request(o.value))),
                   !.pc = Waiting(tab, "translate")]
    ELSE [L EXCEPT !.shown = Append(@, "error_transcription"),
                   !.pc = Waiting(tab, "done")]

\* translate_text calling the endpoint again after a failure.
OnTranslationRetry(L, tab, o) ==
    IF o.ok /\ Truthy(o.value)
    THEN [L EXCEPT !.messages = Append(@, AssistantEntry(o.value)),
                   !.calls = Append(@, Call("speak", tab, o.value, <<>>)),
                   !.pc = Waiting(tab, "speak")]
    ELSE IF o.ok
    THEN [L EXCEPT !.pc = Waiting(tab, "done")]
    ELSE [L EXCEPT !.shown = Append(@, "error_api"),
                   !.calls = Append(@, Call("translate", tab, L.calls[Len(L.calls)].input,
                                            L.calls[Len(L.calls)].request)),
                   !.pc = Waiting(tab, "translate")]

\* speak_text called outside the test of the translation.
OnTranslationSpeakAlways(L, tab, o) ==
    LET translation == translate_text(o)
        L1 == IF o.ok THEN L ELSE [L EXCEPT !.shown = Append(@, "error_api")]
        L2 == IF Truthy(translation)
              THEN [L1 EXCEPT !.messages = Append(@, AssistantEntry(translation))]
              ELSE L1
    IN [L2 EXCEPT !.calls = Append(@, Call("speak", tab, translation, <<>>)),
                  !.pc = Waiting(tab, "speak")]

\* Lines 42-43 (the error translate_text reports) and lines 116-120 /
\* 143-146 / 174-177 (what the caller does with the returned value).
OnTranslation(L, tab, o) ==
    LET translation == translate_text(o)
        L1 == IF o.ok THEN L ELSE [L EXCEPT !.shown = Append(@, "error_api")]
    IN IF Truthy(translation)
       THEN [L1 EXCEPT !.messages = Append(@, AssistantEntry(translation)),
                       !.calls = Append(@, Call("speak", tab, translation, <<>>)),
                       !.pc = Waiting(tab, "speak")]
       ELSE [L1 EXCEPT !.pc = Waiting(tab, "done")]

\* A failed synthesis taking the translation back out of the Conversation.
OnSpeechRollback(L, tab, o) ==
    IF o.ok
    THEN [L EXCEPT !.shown = Append(@, "audio"), !.pc = Waiting(tab, "done")]
    ELSE [L EXCEPT !.shown = Append(@, "error_tts"),
                   !.messages = SubSeq(@, 1, Len(@) - 1),
                   !.pc = Waiting(tab, "done")]

\* Lines 56-57 (the error speak_text reports) and lines 121-122 / 147-148 /
\* 178-179 (the player, only for audio that came back).
OnSpeech(L, tab, o) ==
    LET audio_bytes == speak_text(o)
        L1 == IF o.ok THEN L ELSE [L EXCEPT !.shown = Append(@, "error_tts")]
    IN IF Truthy(audio_bytes)
       THEN [L1 EXCEPT !.shown = Append(@, "audio"), !.pc = Waiting(tab, "done")]
       ELSE [L1 EXCEPT !.pc = Waiting(tab, "done")]

\* A tab that is done hands over to the rest of the script.
Continue(L, audio_file, audio_info) ==
    IF L.pc.call = "done" THEN AfterTab(L, L.pc.tab, audio_file, audio_info) ELSE L

\* The current execution of session s reported a failure of an outbound call.
ReportedFailure(s) ==
    \E i \in 1..Len(shown[s]) :
        shown[s][i] \in {"error_api", "error_transcription", "error_tts"}

\* How far in the script an execution is: the tabs in the order of the
\* source, and in a tab transcription, translation, synthesis.
Position(p) ==
    IF p = Idle THEN 10
    ELSE (CASE p.tab = Chat -> 0 [] p.tab = FileUploader -> 3 [] OTHER -> 6)
         + (CASE p.call = "transcribe" -> 1 [] p.call = "translate" -> 2 [] OTHER -> 3)

\* One list of messages for the whole app (a module-level list in place of
\* st.session_state).
CommitShared(s, L) ==
    /\ messages' = [t \in Sessions |-> L.messages]
    /\ active_tab' = [active_tab EXCEPT ![s] = L.active_tab]
    /\ calls' = [calls EXCEPT ![s] = L.calls]
    /\ shown' = [shown EXCEPT ![s] = L.shown]
    /\ pc' = [pc EXCEPT ![s] = L.pc]

Local(s) == [messages |-> messages[s], active_tab |-> active_tab[s],
             calls |-> calls[s], shown |-> shown[s], pc |-> pc[s]]

Commit(s, L) ==
    /\ messages' = [messages EXCEPT ![s] = L.messages]
    /\ active_tab' = [active_tab EXCEPT ![s] = L.active_tab]
    /\ calls' = [calls EXCEPT ![s] = L.calls]
    /\ shown' = [shown EXCEPT ![s] = L.shown]
    /\ pc' = [pc EXCEPT ![s] = L.pc]

\* Lines 85-96: what an execution of session s starts its tabs with.
Start(s) ==
    [messages |-> InitMessages(keys[s], messages[s]),
     active_tab |-> InitActiveTab(keys[s], active_tab[s]),
     calls |-> <<>>, shown |-> <<>>, pc |-> Idle]

\* Lines 78-103 and on: an execution of the script of session s, triggered by
\* event ev, in which st.chat_input returns prompt, st.file_uploader returns
\* audio_file and mic_recorder returns audio_info.
Run(s, ev, prompt, audio_file, audio_info) ==
    /\ s \in live
    /\ pc[s] = Idle
    /\ Len(messages[s]) < MaxHistory
    /\ event' = [event EXCEPT ![s] = ev]
    /\ before' = [before EXCEPT ![s] = messages[s]]
    /\ recovering' = [recovering EXCEPT ![s] = ReportedFailure(s)]
    /\ uploaded' = [uploaded EXCEPT ![s] = audio_file]
    /\ recorded' = [recorded EXCEPT ![s] = audio_info]
    /\ UNCHANGED <<apiKey, live>>
    /\ IF ~CredentialPresent(apiKey)
       THEN \* st.error, st.stop(): nothing below line 83 is executed
            /\ shown' = [shown EXCEPT ![s] = <<"error_credential">>]
            /\ calls' = [calls EXCEPT ![s] = <<>>]
            /\ widgets' = [widgets EXCEPT ![s] = FALSE]
            /\ UNCHANGED <<keys, messages, active_tab, tab_labels, pc>>
       ELSE /\ keys' = [keys EXCEPT ![s] = @ \cup {"messages", "active_tab"}]
            /\ tab_labels' = [tab_labels EXCEPT ![s] = TabLabels(Start(s).active_tab)]
            /\ widgets' = [widgets EXCEPT ![s] = TRUE]
            /\ Commit(s, ChatTab(Start(s), prompt, audio_file, audio_info))

\* ----------------------------------------------------------------- events
\* The page is loaded, or re-executed with no new input.
Rerun(s) ==
    Run(s, "rerun", None, uploaded[s], recorded[s])

\* Line 107: a text is submitted in the chat input.
SubmitText(s, p) ==
    /\ widgets[s]
    /\ Run(s, "text", p, uploaded[s], recorded[s])

\* Line 126: a file is chosen in the uploader.
UploadFile(s, f) ==
    /\ widgets[s]
    /\ Run(s, "upload", None, f, recorded[s])

\* Line 126: the file is removed from the uploader.
RemoveFile(s) ==
    /\ widgets[s]
    /\ uploaded[s] # None
    /\ Run(s, "remove", None, None, recorded[s])

\* Line 155: a recording is stopped.
StopRecording(s, a) ==
    /\ widgets[s]
    /\ Run(s, "record", None, uploaded[s], a)

\* ---------------------------------------------------- answers of the calls
Resume(s, L) ==
    /\ Commit(s, Continue(L, uploaded[s], recorded[s]))
    /\ UNCHANGED <<apiKey, live, keys, tab_labels, widgets, uploaded, recorded,
                   event, before, recovering>>

\* Lines 133-137 / 164-168: the transcription endpoint answers.
TranscriptionReturns(s, o) ==
    /\ pc[s].call = "transcribe"
    /\ Resume(s, OnTranscription([Local(s) EXCEPT !.calls = Answer(@, o)], pc[s].tab, o))

\* Lines 37-41: the completion endpoint answers.
TranslationReturns(s, o) ==
    /\ pc[s].call = "translate"
    /\ Resume(s, OnTranslation([Local(s) EXCEPT !.calls = Answer(@, o)], pc[s].tab, o))

\* Lines 49-55: the speech endpoint answers.
SpeechReturns(s, o) ==
    /\ pc[s].call = "speak"
    /\ Resume(s, OnSpeech([Local(s) EXCEPT !.calls = Answer(@, o)], pc[s].tab, o))

\* ---------------------------------------------------------- specification
Fresh ==
    /\ keys = [s \in Sessions |-> {}]
    /\ messages = [s \in Sessions |-> <<>>]
    /\ active_tab = [s \in Sessions |-> None]
    /\ tab_labels = [s \in Sessions |-> <<>>]
    /\ widgets = [s \in Sessions |-> FALSE]
    /\ uploaded = [s \in Sessions |-> None]
    /\ recorded = [s \in Sessions |-> None]
    /\ pc = [s \in Sessions |-> Idle]
    /\ calls = [s \in Sessions |-> <<>>]
    /\ shown = [s \in Sessions |-> <<>>]
    /\ event = [s \in Sessions |-> "none"]
    /\ before = [s \in Sessions |-> <<>>]
    /\ recovering = [s \in Sessions |-> FALSE]

\* One open session; the secret is configured or not.
Init ==
    /\ apiKey \in BOOLEAN
    /\ live = {1}
    /\ Fresh

\* An outbound call of session s comes back.
Answered(s) ==
    \/ \E o \in TranscriptionOutcomes : TranscriptionReturns(s, o)
    \/ \E o \in TranslationOutcomes : TranslationReturns(s, o)
    \/ \E o \in SpeechOutcomes : SpeechReturns(s, o)

Next ==
    \E s \in Sessions :
        \/ Rerun(s)
        \/ \E p \in Prompts : SubmitText(s, p)
        \/ \E f \in Files : UploadFile(s, f)
        \/ RemoveFile(s)
        \/ \E a \in Recordings : StopRecording(s, a)
        \/ \E o \in TranscriptionOutcomes : TranscriptionReturns(s, o)
        \/ \E o \in TranslationOutcomes : TranslationReturns(s, o)
        \/ \E o \in SpeechOutcomes : SpeechReturns(s, o)

Spec == Init /\ [][Next]_vars

\* Two open sessions with the secret configured; their executions
\* interleave at the outbound calls.
InitTwo ==
    /\ apiKey = TRUE
    /\ live = Sessions
    /\ Fresh

NextTwo ==
    \E s \in Sessions :
        \/ Len(messages[s]) < MaxShared /\ Rerun(s)
        \/ \E p \in Prompts : Len(messages[s]) < MaxShared /\ SubmitText(s, p)
        \/ \E f \in Files : Len(messages[s]) < MaxShared /\ UploadFile(s, f)
        \/ \E o \in TranscriptionOutcomes : TranscriptionReturns(s, o)
        \/ \E o \in TranslationOutcomes : TranslationReturns(s, o)
        \/ \E o \in SpeechOutcomes : SpeechReturns(s, o)

SpecTwo == InitTwo /\ [][NextTwo]_vars

\* ------------------------------------------------ two sessions in lockstep
\* Two sessions that differ in their active tab get the same events and the
\* same answers, step by step.

\* An idle session with an empty Conversation and no held input whose
\* active tab is x, as the program reaches it: for the chat tab after the
\* page load; for the uploader tab after an upload whose transcription
\* failed and the removal of the file; for the recorder tab after a
\* recording whose transcription failed and an empty recording.
IdleWith(x) ==
    [keys |-> {"messages", "active_tab"}, messages |-> <<>>, active_tab |-> x,
     tab_labels |-> TabLabels(x), widgets |-> TRUE, uploaded |-> None,
     recorded |-> IF x = AudioRecorder THEN "" ELSE None,
     pc |-> Idle, calls |-> <<>>, shown |-> <<>>,
     event |-> CASE x = Chat -> "rerun" [] x = FileUploader -> "remove" [] OTHER -> "record",
     before |-> <<>>, recovering |-> (x # Chat)]

InitPair ==
    \E x, y \in {Chat, FileUploader, AudioRecorder} :
        /\ x # y
        /\ apiKey = TRUE
        /\ live = Sessions
        /\ LET st == [s \in Sessions |-> IF s = 1 THEN IdleWith(x) ELSE IdleWith(y)]
           IN /\ keys = [s \in Sessions |-> st[s].keys]
              /\ messages = [s \in Sessions |-> st[s].messages]
              /\ active_tab = [s \in Sessions |-> st[s].active_tab]
              /\ tab_labels = [s \in Sessions |-> st[s].tab_labels]
              /\ widgets = [s \in Sessions |-> st[s].widgets]
              /\ uploaded = [s \in Sessions |-> st[s].uploaded]
              /\ recorded = [s \in Sessions |-> st[s].recorded]
              /\ pc = [s \in Sessions |-> st[s].pc]
              /\ calls = [s \in Sessions |-> st[s].calls]
              /\ shown = [s \in Sessions |-> st[s].shown]
              /\ event = [s \in Sessions |-> st[s].event]
              /\ before = [s \in Sessions |-> st[s].before]
              /\ recovering = [s \in Sessions |-> st[s].recovering]

CommitBoth(R) ==
    /\ messages' = [s \in Sessions |-> R[s].messages]
    /\ active_tab' = [s \in Sessions |-> R[s].active_tab]
    /\ calls' = [s \in Sessions |-> R[s].calls]
    /\ shown' = [s \in Sessions |-> R[s].shown]
    /\ pc' = [s \in Sessions |-> R[s].pc]

\* Both sessions get event ev: Run in each of them (the secret is present).
\* F[s] and A[s] are what the uploader and the recorder of s return.
RunBoth(ev, prompt, F, A) ==
    /\ \A s \in Sessions : s \in live /\ pc[s] = Idle /\ Len(messages[s]) < MaxHistory
    /\ CredentialPresent(apiKey)
    /\ event' = [s \in Sessions |-> ev]
    /\ before' = [s \in Sessions |-> messages[s]]
    /\ recovering' = [s \in Sessions |-> ReportedFailure(s)]
    /\ uploaded' = F
    /\ recorded' = A
    /\ keys' = [s \in Sessions |-> keys[s] \cup {"messages", "active_tab"}]
    /\ tab_labels' = [s \in Sessions |-> TabLabels(Start(s).active_tab)]
    /\ widgets' = [s \in Sessions |-> TRUE]
    /\ CommitBoth([s \in Sessions |-> ChatTab(Start(s), prompt, F[s], A[s])])
    /\ UNCHANGED <<apiKey, live>>

RerunBoth == RunBoth("rerun", None, uploaded, recorded)

SubmitTextBoth(p) ==
    /\ \A s \in Sessions : widgets[s]
    /\ RunBoth("text", p, uploaded, recorded)

UploadFileBoth(f) ==
    /\ \A s \in Sessions : widgets[s]
    /\ RunBoth("upload", None, [s \in Sessions |-> f], recorded)

RemoveFileBoth ==
    /\ \A s \in Sessions : widgets[s] /\ uploaded[s] # None
    /\ RunBoth("remove", None, [s \in Sessions |-> None], recorded)

StopRecordingBoth(a) ==
    /\ \A s \in Sessions : widgets[s]
    /\ RunBoth("record", None, uploaded, [s \in Sessions |-> a])

\* Both sessions get the answer o to the call they wait in.
ResumeBoth(R) ==
    /\ CommitBoth([s \in Sessions |-> Continue(R[s], uploaded[s], recorded[s])])
    /\ UNCHANGED <<apiKey, live, keys, tab_labels, widgets, uploaded, recorded,
                   event, before, recovering>>

AnswerOf(s, o) == [Local(s) EXCEPT !.calls = Answer(@, o)]

TranscriptionReturnsBoth(o) ==
    /\ \A s \in Sessions : pc[s].call = "transcribe"
    /\ ResumeBoth([s \in Sessions |-> OnTranscription(AnswerOf(s, o), pc[s].tab, o)])

TranslationReturnsBoth(o) ==
    /\ \A s \in Sessions : pc[s].call = "translate"
    /\ ResumeBoth([s \in Sessions |-> OnTranslation(AnswerOf(s, o), pc[s].tab, o)])

SpeechReturnsBoth(o) ==
    /\ \A s \in Sessions : pc[s].call = "speak"
    /\ ResumeBoth([s \in Sessions |-> OnSpeech(AnswerOf(s, o), pc[s].tab, o)])

NextPair ==
    \/ RerunBoth
    \/ \E p \in Prompts : SubmitTextBoth(p)
    \/ \E f \in Files : UploadFileBoth(f)
    \/ RemoveFileBoth
    \/ \E a \in Recordings : StopRecordingBoth(a)
    \/ \E o \in TranscriptionOutcomes : TranscriptionReturnsBoth(o)
    \/ \E o \in TranslationOutcomes : TranslationReturnsBoth(o)
    \/ \E o \in SpeechOutcomes : SpeechReturnsBoth(o)

SpecPair == InitPair /\ [][NextPair]_vars

\* ------------------------------------------------------------- properties
IsPrefix(a, b) == Len(a) <= Len(b) /\ SubSeq(b, 1, Len(a)) = a

\* The entries the current execution of session s has appended so far.
Appended(s) == SubSeq(messages[s], Len(before[s]) + 1, Len(messages[s]))

\* The execution an input event of session s triggered has run to its end.
RunEnded(s) == pc[s] = Idle /\ event[s] \in {"text", "upload", "record"}

\* The calls of a kind that a tab issued in the current execution.
CallsOf(s, tab, kind) ==
    {i \in 1..Len(calls[s]) : calls[s][i].tab = tab /\ calls[s][i].kind = kind}

\* The tab an audio event belongs to.
TabOf(ev) == IF ev = "upload" THEN FileUploader ELSE AudioRecorder

\* The text interaction of session s has ended and its translation raised.
TextTranslationFailed(s) ==
    /\ RunEnded(s) /\ event[s] = "text"
    /\ \E i \in CallsOf(s, Chat, "translate") : calls[s][i].status = "error"

\* The audio interaction of session s has ended and its transcription raised.
AudioTranscriptionFailed(s) ==
    /\ RunEnded(s) /\ event[s] \in {"upload", "record"}
    /\ \E i \in CallsOf(s, TabOf(event[s]), "transcribe") : calls[s][i].status = "error"

\* The audio interaction of session s has ended, its transcription returned
\* and its translation raised.
AudioTranslationFailed(s) ==
    /\ RunEnded(s) /\ event[s] \in {"upload", "record"}
    /\ \E i \in CallsOf(s, TabOf(event[s]), "transcribe") : calls[s][i].status = "ok"
    /\ \E i \in CallsOf(s, TabOf(event[s]), "translate") : calls[s][i].status = "error"

\* C1: the Conversation is append-only: every step of every session leaves
\* the Conversation it had as a prefix of the Conversation it has, so the
\* length never decreases and no entry is changed, the creation of the
\* (empty) list by the first execution included.
C1_AppendOnly ==
    [][\A s \in Sessions : IsPrefix(messages[s], messages'[s])]_vars

\* C1 witness: an execution that began with a non-empty Conversation has
\* ended with more entries.
C1_Witness ==
    \E s \in Sessions :
        /\ RunEnded(s)
        /\ Len(before[s]) >= 1
        /\ Len(messages[s]) > Len(before[s])

\* C2 (as claimed): when the translation of a text interaction fails, the
\* Conversation after the interaction is the Conversation before it plus
\* the one entry {user, raw text}, and an error is reported.
C2_AsClaimed ==
    \A s \in Sessions :
        TextTranslationFailed(s) =>
            /\ messages[s] = Append(before[s], UserEntry(calls[s][1].input))
            /\ \A i \in 1..Len(Appended(s)) : Appended(s)[i].role # "assistant"
            /\ \E i \in 1..Len(shown[s]) : shown[s][i] = "error_api"

\* C3 (as claimed): when the transcription of an audio interaction fails,
\* nothing is appended, no translation and no synthesis is issued for that
\* audio, and the error is reported.
C3_AsClaimed ==
    \A s \in Sessions :
        AudioTranscriptionFailed(s) =>
            /\ messages[s] = before[s]
            /\ CallsOf(s, TabOf(event[s]), "translate") = {}
            /\ CallsOf(s, TabOf(event[s]), "speak") = {}
            /\ \E i \in 1..Len(shown[s]) : shown[s][i] = "error_transcription"

\* C4 (as claimed): when the transcription of an audio interaction returns
\* and its translation fails, exactly one entry is appended, the user entry
\* tagged as a transcription, and no assistant entry.
C4_AsClaimed ==
    \A s \in Sessions :
        AudioTranslationFailed(s) =>
            /\ Len(Appended(s)) = 1
            /\ \E t \in Transcripts : Appended(s) = <<TranscriptionEntry(t)>>

\* C5 (as claimed): one interaction triggers at most one chain of outbound
\* calls, that of its own input mode: at most one transcription, then at
\* most one translation, then at most one synthesis.
C5_AsClaimed ==
    \A s \in Sessions :
        event[s] \in {"text", "upload", "record"} =>
            /\ \A i \in 1..Len(calls[s]) :
                   calls[s][i].tab = (IF event[s] = "text" THEN Chat ELSE TabOf(event[s]))
            /\ \A i, j \in 1..Len(calls[s]) :
                   calls[s][i].kind = calls[s][j].kind => i = j
            /\ \A i, j \in 1..Len(calls[s]) :
                   (i < j) => \/ calls[s][i].kind = "transcribe"
                              \/ calls[s][i].kind = "translate" /\ calls[s][j].kind = "speak"
\* The text interaction of session s has ended and its translation returned.
TextTranslationReturned(s) ==
    /\ RunEnded(s) /\ event[s] = "text"
    /\ \E i \in CallsOf(s, Chat, "translate") : calls[s][i].status = "ok"

\* C6 (as claimed): when the translation of a text interaction with input p
\* returns r, the Conversation after the interaction is the Conversation
\* before it followed by {user, p} and {assistant, r}, for every p and r.
C6_AsClaimed ==
    \A s \in Sessions :
        TextTranslationReturned(s) =>
            messages[s] = before[s] \o << UserEntry(calls[s][1].input),
                                          AssistantEntry(calls[s][1].output) >>

\* C7 (as claimed): when the transcription of an audio interaction returns t
\* and its translation returns r, the Conversation gains exactly the user
\* entry tagged as a transcription of t and then the assistant entry r.
C7_AsClaimed ==
    \A s \in Sessions :
        (RunEnded(s) /\ event[s] \in {"upload", "record"}) =>
            \A i \in CallsOf(s, TabOf(event[s]), "transcribe") :
            \A j \in CallsOf(s, TabOf(event[s]), "translate") :
                (calls[s][i].status = "ok" /\ calls[s][j].status = "ok") =>
                    Appended(s) = << TranscriptionEntry(calls[s][i].output),
                                     AssistantEntry(calls[s][j].output) >>

\* C8: a failing synthesis leaves the Conversation as it is: when the
\* answer of a synthesis call is a failure, the last entry of the
\* Conversation is already the assistant entry holding the text given to
\* the call, the step changes no entry, and it shows the error and no player.
C8_SpeechFailureKeepsTranslation ==
    [][\A s \in Sessions :
          (/\ pc[s].call = "speak"
           /\ pc'[s] # pc[s]
           /\ calls'[s][Len(calls[s])].status = "error")
          => /\ Len(messages[s]) >= 1
             /\ messages[s][Len(messages[s])] = AssistantEntry(calls[s][Len(calls[s])].input)
             /\ messages'[s] = messages[s]
             /\ shown'[s] = Append(shown[s], "error_tts")]_vars

\* C8 witness: one execution in which the synthesis failed in each of the
\* three tabs has ended with the three translations in the Conversation.
C8_Witness ==
    \E s \in Sessions :
        /\ RunEnded(s)
        /\ \A tab \in {Chat, FileUploader, AudioRecorder} :
               \E i \in CallsOf(s, tab, "speak") :
                   /\ calls[s][i].status = "error"
                   /\ \E j \in 1..Len(Appended(s)) :
                          Appended(s)[j] = AssistantEntry(calls[s][i].input)

\* C9: without the credential no input is ever processed: no input control
\* is drawn, no input event is accepted, no entry is appended and no
\* outbound call is issued, in any session.
C9_NoCredentialNoInput ==
    ~apiKey =>
        \A s \in Sessions :
            /\ ~widgets[s]
            /\ event[s] \in {"none", "rerun"}
            /\ messages[s] = <<>>
            /\ calls[s] = <<>>
            /\ pc[s] = Idle

\* C9 witness: the page was loaded without the credential and the execution
\* halted on the credential error.
C9_Witness ==
    \E s \in Sessions :
        ~apiKey /\ event[s] = "rerun" /\ shown[s] = <<"error_credential">>

\* C10: a failure never leaves a session stuck.  An execution that waits in
\* a call can always take the answer and every answer moves it forward in
\* the script; a session that is idle after an execution that reported a
\* failure accepts the next text input (below the history bound); and a
\* text input following a failed execution, with a translation that came
\* back non-empty, appends its user and assistant entries.
C10_SessionStaysUsable ==
    \A s \in live :
        /\ pc[s] # Idle =>
               /\ ENABLED Answered(s)
               /\ ~ENABLED (Answered(s) /\ Position(pc'[s]) <= Position(pc[s]))
        /\ (pc[s] = Idle /\ ReportedFailure(s) /\ Len(messages[s]) < MaxHistory) =>
               \A p \in Prompts : ENABLED SubmitText(s, p)
        /\ (RunEnded(s) /\ recovering[s] /\ event[s] = "text"
              /\ calls[s][1].status = "ok" /\ Truthy(calls[s][1].output)) =>
               IsPrefix(before[s] \o << UserEntry(calls[s][1].input),
                                        AssistantEntry(calls[s][1].output) >>,
                        messages[s])

\* C10 witness: after an execution that reported a failure, a text input
\* was translated and its two entries are in the Conversation.
C10_Witness ==
    \E s \in live :
        /\ RunEnded(s) /\ recovering[s] /\ event[s] = "text"
        /\ calls[s][1].status = "ok" /\ Truthy(calls[s][1].output)
        /\ Appended(s) = << UserEntry(calls[s][1].input),
                            AssistantEntry(calls[s][1].output) >>
\* The tab of the input an event brings.
ModeOf(ev) == IF ev = "text" THEN Chat ELSE TabOf(ev)

\* C11 (as claimed): after every interaction the active tab is the tab of
\* the input that the interaction brought (text, a file, or a recording
\* that holds audio).
C11_AsClaimed ==
    \A s \in Sessions :
        (RunEnded(s) /\ (event[s] = "record" => HasRecording(recorded[s]))) =>
            active_tab[s] = ModeOf(event[s])

\* C13: a synthesis call comes only after a translation that returned, in
\* the same tab of the same execution: the call before it in the log is the
\* translation of that tab, it returned, its result is the text given to the
\* synthesis, and the assistant entry with that result is among the entries
\* the execution appended (it is the last entry while the synthesis is
\* awaited); after a transcription or translation that raised, the tab
\* issues no further call.
C13_SpeechOnlyAfterTranslation ==
    \A s \in Sessions :
        /\ \A i \in 1..Len(calls[s]) :
               calls[s][i].kind = "speak" =>
                   /\ i > 1
                   /\ calls[s][i-1].kind = "translate"
                   /\ calls[s][i-1].tab = calls[s][i].tab
                   /\ calls[s][i-1].status = "ok"
                   /\ calls[s][i-1].output = calls[s][i].input
                   /\ \E j \in 1..Len(Appended(s)) :
                          Appended(s)[j] = AssistantEntry(calls[s][i].input)
        /\ pc[s].call = "speak" =>
               /\ Len(messages[s]) >= 1
               /\ messages[s][Len(messages[s])]
                      = AssistantEntry(calls[s][Len(calls[s])].input)
        /\ \A i, j \in 1..Len(calls[s]) :
               (i < j /\ calls[s][i].status = "error"
                      /\ calls[s][i].kind \in {"transcribe", "translate"}) =>
                   calls[s][j].tab # calls[s][i].tab

\* C13 witness: a synthesis is awaited in the recorder tab, after the
\* transcription and the translation of the recording returned.
C13_Witness ==
    \E s \in Sessions :
        /\ pc[s] = Waiting(AudioRecorder, "speak")
        /\ calls[s][Len(calls[s]) - 1].status = "ok"
        /\ calls[s][Len(calls[s]) - 1].kind = "translate"

\* C14: every request to the completion endpoint is exactly the system
\* instruction followed by one user message holding the new utterance
\* alone: the typed text in the chat tab, the untagged transcript (the
\* result of the transcription call just before) in the audio tabs; so the
\* request is a function of the utterance and not of the Conversation.
C14_TranslationStateless ==
    \A s \in Sessions :
        \A i \in 1..Len(calls[s]) :
            calls[s][i].kind = "translate" =>
                /\ Len(calls[s][i].request) = 2
                /\ calls[s][i].request[1] = [role |-> "system", content |-> system_prompt]
                /\ calls[s][i].request[2] = [role |-> "user", content |-> calls[s][i].input]
                /\ IF calls[s][i].tab = Chat
                   THEN /\ i = 1
                        /\ calls[s][i].input \in Prompts
                        /\ Appended(s)[1] = UserEntry(calls[s][i].input)
                   ELSE /\ i > 1
                        /\ calls[s][i-1].kind = "transcribe"
                        /\ calls[s][i-1].tab = calls[s][i].tab
                        /\ calls[s][i].input = calls[s][i-1].output

\* C14 witness: with a Conversation that already holds entries, a
\* transcript is being translated.
C14_Witness ==
    \E s \in Sessions :
        /\ Len(before[s]) >= 2
        /\ pc[s].call = "translate" /\ pc[s].tab # Chat
        /\ Len(messages[s]) >= 3
        /\ calls[s][Len(calls[s])].input = "Good morning"

\* The entries of a Conversation with a given role.
CountRole(msgs, role) == Cardinality({i \in 1..Len(msgs) : msgs[i].role = role})

\* C16: in every Conversation every assistant entry comes right after a
\* user entry: the first entry is a user entry, no two assistant entries
\* follow each other, and there are at most as many assistant entries as
\* user entries.
C16_AssistantFollowsUser ==
    \A s \in Sessions :
        /\ \A i \in 1..Len(messages[s]) :
               messages[s][i].role = "assistant" =>
                   i > 1 /\ messages[s][i-1].role = "user"
        /\ CountRole(messages[s], "assistant") <= CountRole(messages[s], "user")

\* C16 witness: a Conversation with two user entries in a row (a failed
\* translation) and then an answered one.
C16_Witness ==
    \E s \in Sessions :
        \E i \in 1..Len(messages[s]) :
            /\ i + 2 <= Len(messages[s])
            /\ messages[s][i].role = "user"
            /\ messages[s][i+1].role = "user"
            /\ messages[s][i+2].role = "assistant"
\* Everything session s owns.
SessionState(s) ==
    << keys[s], messages[s], active_tab[s], tab_labels[s], widgets[s], uploaded[s],
       recorded[s], pc[s], calls[s], shown[s], event[s], before[s], recovering[s] >>

\* C12: sessions are isolated: every step, of any interleaving of the
\* executions of two sessions, is the step of one session and leaves the
\* Conversation, and all other state, of the other session as it was; so a
\* session's Conversation is changed by its own executions only.
C12_SessionsIsolated ==
    [][\E t \in Sessions :
          \A s \in Sessions \ {t} : SessionState(s)' = SessionState(s)]_vars

\* C12 witness: both sessions are in the middle of an execution, each with
\* its own entry in its own Conversation.
C12_Witness ==
    /\ pc[1] # Idle /\ pc[2] # Idle
    /\ messages[1] = <<UserEntry("Hello")>>
    /\ messages[2] = <<TranscriptionEntry("Good morning")>>
\* The labels of a row of tabs, whatever their order.
LabelSet(labels) == {labels[i] : i \in 1..Len(labels)}

\* C15: the active tab is cosmetic: two sessions that start with different
\* active tabs and get the same events and the same answers have, at every
\* step, the same Conversation, the same outbound calls with the same
\* results and the same position in the script; their rows of tabs hold the
\* same tabs, whose first is the active tab the execution started with.
C15_ActiveTabCosmetic ==
    /\ messages[1] = messages[2]
    /\ calls[1] = calls[2]
    /\ pc[1] = pc[2]
    /\ shown[1] = shown[2]
    /\ LabelSet(tab_labels[1]) = LabelSet(tab_labels[2])

\* C15 witness: the two sessions drew their tabs in different orders for
\* the same text input, and both hold its two entries.
C15_Witness ==
    /\ tab_labels[1] # tab_labels[2]
    /\ event[1] = "text" /\ pc[1] = Idle
    /\ Len(messages[1]) = 2
    /\ messages[2] = messages[1]

====
